---- MODULE Spec2Model ----
(***************************************************************************)
(* State-machine model of src/app.py (RTSP/webcam face inference): the     *)
(* health check, the start-up of the main pipeline, the frame loop with    *)
(* its read-retry, the interval-gated save, the max-frames stop and the    *)
(* try / except KeyboardInterrupt / finally shutdown.                      *)
(*                                                                         *)
(* Time is counted in whole seconds: one tick of `clock` is the 1.0 of     *)
(* line 218, and --save-interval is a number of ticks.  time.time() is     *)
(* modelled as a non-decreasing clock: each call returns some value that   *)
(* is at least the value of the previous call.                             *)
(*                                                                         *)
(* SIGINT is delivered by the environment at any point of the run; Python  *)
(* raises KeyboardInterrupt in the main thread at the statement that is    *)
(* about to run.  Inside the try block (lines 187-241) it is caught at     *)
(* line 243; everywhere else it propagates out of main().                  *)
(***************************************************************************)
EXTENDS Integers, Sequences, FiniteSets, TLC

\* ------------------------------------------------------------- bounds
\* Largest --max-frames value explored (0 and -1 are explored as well).
MaxFramesArg == 2
\* Largest --save-interval value explored (0 and -1 are explored as well).
MaxInterval == 2
\* Largest value time.time() returns, in ticks.
MaxClock == 4
\* Largest number of cap.read() calls of one run of the main loop.
MaxReads == 5
\* Largest number of SIGINTs delivered to one run.
MaxInterrupts == 2
\* Largest number of boxes one detectMultiScale call returns.
MaxBoxes == 2
\* Largest --min-neighbors value explored.
MaxNeighbors == 4

\* ---------------------------------------------------------- constants
\* The 1.0 second FPS window of line 218, in ticks.
FpsWindow == 1
\* Exit codes.
HealthOpenFailed == 1
HealthReadFailed == 2
DetectorLoadFailed == 3
SourceOpenFailed == 4
ExitOk == 0
\* Defaults of --scale-factor (1.05, in hundredths), --min-neighbors, --min-size.
DefaultScaleFactor == 105
DefaultMinNeighbors == 3
DefaultMinSize == 20
\* Defaults of --brighten-alpha (1.6, in tenths) and --brighten-beta.
DefaultAlpha == 16
DefaultBeta == 35
\* The largest value of an 8-bit channel.
PixelMax == 255
\* Line 106: the 1.05 of max(1.05, scale_factor), in hundredths.
ProfileScaleFloor == 105
\* Line 107: the 3 of max(3, min_neighbors - 1).
ProfileNeighborsFloor == 3

VARIABLES
    health_check,   \* args.health_check
    max_frames,     \* args.max_frames
    save_interval,  \* args.save_interval
    use_profile,    \* args.use_profile
    scale_factor,   \* args.scale_factor, in hundredths
    min_neighbors,  \* args.min_neighbors
    min_size,       \* args.min_size
    brighten_alpha, \* args.brighten_alpha, in tenths
    brighten_beta,  \* args.brighten_beta
    clahe,          \* args.clahe
    pixel,          \* one channel of one pixel of the frames the source delivers
    in_view,        \* the most faces a detector finds in any frame of the source
    pc,             \* the statement about to run
    cap,            \* the capture handle: "None", "open" or "released"
    ok, frame,      \* the pair returned by the last cap.read()
    clock,          \* the value of the last time.time() call
    now,            \* line 217
    last_save,      \* line 180
    saved,          \* line 181
    frames,         \* line 182
    t_fps,          \* line 183
    fps_counter,    \* line 184
    frontal,        \* line 170: "unset", "loaded" or "None"
    profile,        \* line 170: "unset", "loaded" or "None"
    faces,          \* line 202: the sequence of boxes detect_faces returned
    pixel_b,        \* that channel of that pixel in frame_b after line 58
    gray, disp,     \* line 195: the images preprocess_for_faces returned
    annotated,      \* line 210
    files,          \* the names of the files in the output directory
    lastName,       \* the name line 234 wrote last (<<>> before the first)
    written,        \* the image line 234 wrote last
    raising,        \* a KeyboardInterrupt is propagating through the finally clause
    ret,            \* <<>> while running, <<code>> once main() has returned
    \* ---- history (not program state)
    opens,          \* calls of cv2.VideoCapture that returned an opened handle or not
    reads,          \* calls of cap.read()
    okReads,        \* calls of cap.read() that returned a usable frame
    releases,       \* calls of cap.release()
    checks,         \* evaluations of the save condition of line 231
    sigints,        \* SIGINTs delivered
    loopExit,       \* how the loop was left: "none", "break" or "interrupt"
    caughtAt,       \* the statement at which line 243 caught the interrupt, or "none"
    streamed,       \* the try block of line 186 has been entered
    firstNow,       \* <<>> or <<now of the first processed frame>>
    saveTimes,      \* the value of now at each save, in the order of the saves
    frontalCalls,   \* calls of frontal.detectMultiScale
    profileCalls,   \* calls of profile.detectMultiScale
    frontalArgs,    \* <<scaleFactor, minNeighbors, minSize>> of the last frontal call
    profileArgs,    \* <<scaleFactor, minNeighbors, minSize>> of the last profile call
    frontalOut,     \* what the frontal detector returned for the last frame detected
    profileOut,     \* what the profile detector returned for it (<<>> when not called)
    detectedOn      \* the image given to the detectors at the last detection

vars == <<health_check, max_frames, save_interval, pc, cap, ok, frame, clock, now,
          last_save, saved, frames, t_fps, fps_counter, frontal, raising, ret,
          opens, reads, okReads, releases, checks, sigints, loopExit, caughtAt,
          streamed, firstNow, saveTimes,
          use_profile, scale_factor, min_neighbors, min_size, profile, faces,
          frontalCalls, profileCalls, frontalArgs, profileArgs, frontalOut, profileOut,
          brighten_alpha, brighten_beta, clahe, pixel, in_view, pixel_b, gray, disp, annotated,
          files, lastName, written, detectedOn>>

args == <<health_check, max_frames, save_interval,
          use_profile, scale_factor, min_neighbors, min_size,
          brighten_alpha, brighten_beta, clahe, pixel, in_view>>
\* The detector calls of one frame: what Detect changes.
detection == <<faces, frontalCalls, profileCalls, frontalArgs, profileArgs,
               frontalOut, profileOut, detectedOn>>
\* What Preprocess and Annotate produce.
images == <<pixel_b, gray, disp, annotated>>
\* What line 234 leaves in the output directory.
disk == <<files, lastName, written>>
\* The data path: the detectors and what each stage produces.
data == <<profile, detection, images, disk>>
stats == <<now, last_save, saved, frames, t_fps, fps_counter>>
hist == <<opens, reads, okReads, releases, checks, loopExit, caughtAt, streamed, firstNow,
          saveTimes>>
\* What only Interrupt, InitStats and MaxCheck change.
flow == <<loopExit, caughtAt, streamed>>

\* ------------------------------------------------------------ helpers
\* Statements inside the try block of lines 186-241.
TryBlock == {"read", "sleep", "preprocess", "detect", "annotate", "count",
             "telemetry", "save", "maxcheck"}

\* Statements of one frame's processing, after its successful read.
FrameStages == {"preprocess", "detect", "annotate", "count", "telemetry",
                "save", "maxcheck"}

Terminated == {"done", "killed"}

\* Line 189 / line 128: `not ok or frame is None`.
ReadFailedOnlyNotOk(o, f) == ~o
ReadFailedBoth(o, f) == ~o /\ f = "None"
ReadFailed(o, f) == ~o \/ f = "None"

\* Line 231: `now - last_save >= args.save_interval`.
SaveDueStrict(t, last, interval) == t - last > interval
SaveDueAlways(t, last, interval) == TRUE
SaveDue(t, last, interval) == t - last >= interval

\* Line 239: `args.max_frames > 0 and frames >= args.max_frames`.
MaxFramesReachedLate(n, limit) == limit > 0 /\ n > limit
MaxFramesReachedAtZero(n, limit) == n >= limit
MaxFramesReached(n, limit) == limit > 0 /\ n >= limit

\* The values cap.read() can return: (ok, frame).
ReadResults == {<<TRUE, "frame">>, <<TRUE, "None">>, <<FALSE, "None">>, <<FALSE, "frame">>}

\* A read that returned a frame to process (what okReads counts).
Usable(o, f) == o /\ f = "frame"

Max(a, b) == IF a >= b THEN a ELSE b

\* n / d rounded to the nearest integer, halves to the even one (cvRound), n >= 0.
RoundHalfEven(n, d) ==
    LET q == n \div d
        r == n % d
    IN  IF 2 * r > d THEN q + 1
        ELSE IF 2 * r < d THEN q
        ELSE IF q % 2 = 0 THEN q ELSE q + 1

\* Line 58: cv2.convertScaleAbs on one 8-bit channel value v, alpha in tenths:
\* saturate_cast<uchar>(|v * alpha + beta|).
ConvertScaleAbs(v, alpha10, beta) ==
    LET x10 == alpha10 * v + 10 * beta
        a10 == IF x10 < 0 THEN -x10 ELSE x10
        r   == RoundHalfEven(a10, 10)
    IN  IF r > PixelMax THEN PixelMax ELSE r

\* An image: the read it comes from, what was done to it, the boxes drawn on it.
NoImage == [src |-> 0, kind |-> "none", luma |-> "none", boxes |-> <<>>]

\* Line 188: the frame read n returned, as the source delivered it.
RawFrame(n) == [src |-> n, kind |-> "raw", luma |-> "none", boxes |-> <<>>]

\* Lines 58-70: frame_b of the frame of read n: brightened, then its luma
\* equalized (equalize is always True at line 200) or, with --clahe, CLAHE'd.
Enhanced(n, useClahe) ==
    [src |-> n, kind |-> "enhanced",
     luma |-> IF useClahe THEN "clahe" ELSE "equalized", boxes |-> <<>>]

\* Line 72: the grayscale of an image.
GrayOf(img) == [img EXCEPT !.kind = "gray"]

\* Lines 115-118: the boxes drawn on the image.
Drawn(img, boxes) == [img EXCEPT !.boxes = boxes]

\* Line 232: the timestamp of the file name, "%Y%m%d_%H%M%S_%f" of the clock
\* value t: zero-padded decimal digits of fixed width.
FileName(t) == <<(t \div 10) % 10, t % 10>>

\* Lexical order of two names of the same length.
LexLess(a, b) ==
    \E i \in 1..Len(a) : a[i] < b[i] /\ \A j \in 1..(i - 1) : a[j] = b[j]

\* What one detectMultiScale call can return: a sequence of up to in_view
\* boxes (x, y, w, h); a box is named by the detector that reported it and its
\* place in that detector's result.
DetectorResults(detector) == {[i \in 1..k |-> <<detector, i>>] : k \in 0..in_view}

\* Lines 105-108: the parameters of the profile pass.
ProfileParamsNoFloor(sf, mn, ms) == <<Max(ProfileScaleFloor, sf), mn - 1, ms>>
ProfileParams(sf, mn, ms) ==
    <<Max(ProfileScaleFloor, sf), Max(ProfileNeighborsFloor, mn - 1), ms>>

\* Lines 110-113: the frontal boxes, then the profile boxes when there are any.
FuseProfileFirst(f, p) == IF Len(p) > 0 THEN p \o f ELSE f
Fuse(f, p) == IF Len(p) > 0 THEN f \o p ELSE f

\* --------------------------------------------------------------- Init
\* What is the same in every initial state.
InitRest ==
    /\ pc = "start"
    /\ cap = "None"
    /\ ok = FALSE /\ frame = "None"
    /\ clock = 0 /\ now = 0
    /\ last_save = 0 /\ saved = 0 /\ frames = 0 /\ t_fps = 0 /\ fps_counter = 0
    /\ frontal = "unset" /\ profile = "unset"
    /\ faces = <<>>
    /\ raising = FALSE
    /\ ret = <<>>
    /\ opens = 0 /\ reads = 0 /\ okReads = 0 /\ releases = 0 /\ checks = 0
    /\ sigints = 0
    /\ loopExit = "none"
    /\ caughtAt = "none"
    /\ streamed = FALSE
    /\ firstNow = <<>>
    /\ saveTimes = <<>>
    /\ frontalCalls = 0 /\ profileCalls = 0
    /\ frontalArgs = <<>> /\ profileArgs = <<>>
    /\ frontalOut = <<>> /\ profileOut = <<>>
    /\ detectedOn = NoImage
    /\ pixel_b = 0
    /\ gray = NoImage /\ disp = NoImage /\ annotated = NoImage
    /\ files = {} /\ lastName = <<>> /\ written = NoImage

\* A source that shows no face.
NoFaces == in_view = 0

\* A source that shows up to MaxBoxes faces to each detector.
SomeFaces == in_view = MaxBoxes

\* The preprocessing options at their defaults; the sample pixel is mid-grey.
DefaultPreprocess ==
    /\ brighten_alpha = DefaultAlpha
    /\ brighten_beta = DefaultBeta
    /\ clahe = FALSE
    /\ pixel = 100

\* The detection options at their defaults, without --use-profile.
DefaultDetection ==
    /\ use_profile = FALSE
    /\ scale_factor = DefaultScaleFactor
    /\ min_neighbors = DefaultMinNeighbors
    /\ min_size = DefaultMinSize

\* Every mode, --max-frames and --save-interval, the detection options at
\* their defaults.
Init ==
    /\ health_check \in BOOLEAN
    /\ max_frames \in -1..MaxFramesArg
    /\ save_interval \in -1..MaxInterval
    /\ DefaultDetection
    /\ DefaultPreprocess
    /\ NoFaces
    /\ InitRest

\* Runs with --use-profile given or not; in the main pipeline two frames, then
\* the max-frames stop.
InitDetect ==
    /\ health_check \in BOOLEAN
    /\ max_frames = 2
    /\ save_interval = 1
    /\ use_profile \in BOOLEAN
    /\ scale_factor = DefaultScaleFactor
    /\ min_neighbors = DefaultMinNeighbors
    /\ min_size = DefaultMinSize
    /\ DefaultPreprocess
    /\ SomeFaces
    /\ InitRest

\* The state of a run at line 194, its first frame just read: what InitRest
\* says, but for the statement, the handle, the frontal detector and the read.
AtFirstFrame ==
    /\ pc = "preprocess"
    /\ cap = "open"
    /\ ok = TRUE /\ frame = "frame"
    /\ clock = 0 /\ now = 0
    /\ last_save = 0 /\ saved = 0 /\ frames = 0 /\ t_fps = 0 /\ fps_counter = 0
    /\ frontal = "loaded"
    /\ faces = <<>>
    /\ raising = FALSE
    /\ ret = <<>>
    /\ opens = 1 /\ reads = 1 /\ okReads = 1 /\ releases = 0 /\ checks = 0
    /\ sigints = 0
    /\ loopExit = "none"
    /\ caughtAt = "none"
    /\ streamed = TRUE
    /\ firstNow = <<>>
    /\ saveTimes = <<>>
    /\ frontalCalls = 0 /\ profileCalls = 0
    /\ frontalArgs = <<>> /\ profileArgs = <<>>
    /\ frontalOut = <<>> /\ profileOut = <<>>
    /\ detectedOn = NoImage
    /\ pixel_b = 0
    /\ gray = NoImage /\ disp = NoImage /\ annotated = NoImage
    /\ files = {} /\ lastName = <<>> /\ written = NoImage

\* The inputs of preprocess_for_faces drawn from their ranges: every 8-bit
\* value, gains that are exact in binary (0.5, 1.0, 1.5, 2.0) and offsets of
\* both signs.
InitBrighten ==
    /\ health_check = FALSE
    /\ max_frames = 0
    /\ save_interval = 1
    /\ DefaultDetection
    /\ profile = "None"
    /\ brighten_alpha \in {5, 10, 15, 20}
    /\ brighten_beta \in {-300, -35, -1, 0, 1, 35, 300}
    /\ clahe \in BOOLEAN
    /\ pixel \in 0..PixelMax
    /\ NoFaces
    /\ AtFirstFrame

\* The inputs of detect_faces drawn from their ranges, at the first call.
InitDetectCall ==
    /\ health_check = FALSE
    /\ max_frames = 0
    /\ save_interval = 1
    /\ use_profile \in BOOLEAN
    /\ profile \in IF use_profile THEN {"loaded", "None"} ELSE {"None"}
    /\ scale_factor \in {101, 105, 130}
    /\ min_neighbors \in 0..MaxNeighbors
    /\ min_size \in {20, 30}
    /\ DefaultPreprocess
    /\ SomeFaces
    /\ AtFirstFrame

\* ------------------------------------------------------- main(), start
\* Lines 167-168: dispatch on --health-check.
Dispatch ==
    /\ pc = "start"
    /\ pc' = IF health_check THEN "hc_open" ELSE "load"
    /\ UNCHANGED <<args, data, cap, ok, frame, clock, stats, frontal, raising, ret, hist, sigints>>

\* ------------------------------------------------------- health_check
\* Lines 122-125: open_capture; None is the open failure, status 1.
HcOpen ==
    /\ pc = "hc_open"
    /\ opens' = opens + 1
    /\ \E opened \in BOOLEAN :
        IF opened
        THEN /\ cap' = "open"
             /\ pc' = "hc_read"
             /\ ret' = ret
        ELSE /\ cap' = "None"
             /\ pc' = "done"
             /\ ret' = <<HealthOpenFailed>>
    /\ UNCHANGED <<args, data, ok, frame, clock, stats, frontal, raising, reads, okReads, releases,
                   checks, flow, firstNow, saveTimes, sigints>>

\* Line 126: the single read.
HcRead ==
    /\ pc = "hc_read"
    /\ \E r \in ReadResults :
        /\ ok' = r[1]
        /\ frame' = r[2]
        /\ okReads' = IF Usable(r[1], r[2]) THEN okReads + 1 ELSE okReads
    /\ reads' = reads + 1
    /\ pc' = "hc_release"
    /\ UNCHANGED <<args, data, cap, clock, stats, frontal, raising, ret, opens, releases, checks,
                   flow, firstNow, saveTimes, sigints>>

\* (mutant) The health check forgets the release of line 127.
HcReleaseSkipped ==
    /\ pc = "hc_release"
    /\ pc' = "hc_result"
    /\ UNCHANGED <<args, data, cap, ok, frame, clock, stats, frontal, raising, ret, hist, sigints>>

\* Line 127: the release, before the result is looked at.
HcRelease ==
    /\ pc = "hc_release"
    /\ cap' = "released"
    /\ releases' = releases + 1
    /\ pc' = "hc_result"
    /\ UNCHANGED <<args, data, ok, frame, clock, stats, frontal, raising, ret, opens, reads, okReads,
                   checks, flow, firstNow, saveTimes, sigints>>

\* Lines 128-132: status 2 on a failed read, 0 otherwise.
HcResult ==
    /\ pc = "hc_result"
    /\ ret' = IF ReadFailed(ok, frame) THEN <<HealthReadFailed>> ELSE <<ExitOk>>
    /\ pc' = "done"
    /\ UNCHANGED <<args, data, cap, ok, frame, clock, stats, frontal, raising, hist, sigints>>

\* ---------------------------------------------------- main(), start-up
\* (mutant) A missing profile cascade is treated like a missing frontal one.
LoadDetectorsProfileFatal ==
    /\ pc = "load"
    /\ \E frontalLoaded \in BOOLEAN, profileLoaded \in BOOLEAN :
        IF frontalLoaded /\ (profileLoaded \/ ~use_profile)
        THEN /\ frontal' = "loaded"
             /\ profile' = IF use_profile THEN "loaded" ELSE "None"
             /\ pc' = "open" /\ ret' = ret
        ELSE /\ frontal' = IF frontalLoaded THEN "loaded" ELSE "None"
             /\ profile' = "None"
             /\ pc' = "done" /\ ret' = <<DetectorLoadFailed>>
    /\ UNCHANGED <<args, detection, images, disk, cap, ok, frame, clock, stats, raising, hist, sigints>>

\* Lines 170-172 and 76-92: load_detectors; a missing frontal cascade is exit
\* code 3; the profile cascade is loaded only with --use-profile, and a missing
\* one leaves profile None.
LoadDetectors ==
    /\ pc = "load"
    /\ \E frontalLoaded \in BOOLEAN :
        IF frontalLoaded
        THEN /\ frontal' = "loaded"
             /\ \E profileLoaded \in BOOLEAN :
                    profile' = IF use_profile /\ profileLoaded THEN "loaded" ELSE "None"
             /\ pc' = "open" /\ ret' = ret
        ELSE /\ frontal' = "None" /\ profile' = "None"
             /\ pc' = "done" /\ ret' = <<DetectorLoadFailed>>
    /\ UNCHANGED <<args, detection, images, disk, cap, ok, frame, clock, stats, raising, hist, sigints>>

\* (mutant) The `if cap is None` test of lines 175-177 is missing.
OpenCaptureNoCheck ==
    /\ pc = "open"
    /\ opens' = opens + 1
    /\ \E opened \in BOOLEAN : cap' = IF opened THEN "open" ELSE "None"
    /\ pc' = "init"
    /\ UNCHANGED <<args, data, ok, frame, clock, stats, frontal, raising, ret, reads, okReads,
                   releases, checks, flow, firstNow, saveTimes, sigints>>

\* Lines 174-177: open_capture; None is exit code 4.
OpenCapture ==
    /\ pc = "open"
    /\ opens' = opens + 1
    /\ \E opened \in BOOLEAN :
        IF opened
        THEN cap' = "open" /\ pc' = "init" /\ ret' = ret
        ELSE cap' = "None" /\ pc' = "done" /\ ret' = <<SourceOpenFailed>>
    /\ UNCHANGED <<args, data, ok, frame, clock, stats, frontal, raising, reads, okReads, releases,
                   checks, flow, firstNow, saveTimes, sigints>>

\* (mutant) last_save starts at the current time, like t_fps.
InitStatsLastSaveNow ==
    /\ pc = "init"
    /\ saved' = 0 /\ frames' = 0 /\ fps_counter' = 0
    /\ \E t \in clock..MaxClock : clock' = t /\ t_fps' = t /\ last_save' = t
    /\ streamed' = TRUE
    /\ pc' = "read"
    /\ UNCHANGED <<args, data, cap, ok, frame, now, frontal, raising, ret, opens, reads,
                   okReads, releases, checks, loopExit, caughtAt, firstNow, saveTimes, sigints>>

\* Lines 179-184: the run-time counters; t_fps = time.time().
InitStats ==
    /\ pc = "init"
    /\ last_save' = 0 /\ saved' = 0 /\ frames' = 0 /\ fps_counter' = 0
    /\ \E t \in clock..MaxClock : clock' = t /\ t_fps' = t
    /\ streamed' = TRUE
    /\ pc' = "read"
    /\ UNCHANGED <<args, data, cap, ok, frame, now, frontal, raising, ret, opens, reads,
                   okReads, releases, checks, loopExit, caughtAt, firstNow, saveTimes, sigints>>

\* ------------------------------------------------------ the frame loop
\* Lines 188-192: cap.read() returns r; a failed read goes to the backoff sleep.
\* The reads are counted up to MaxReads.
ReadReturns(r, counted) ==
    /\ pc = "read"
    /\ reads' = IF counted THEN reads + 1 ELSE reads
    /\ ok' = r[1]
    /\ frame' = r[2]
    /\ pc' = IF ReadFailed(r[1], r[2]) THEN "sleep" ELSE "preprocess"
    /\ okReads' = IF counted /\ Usable(r[1], r[2]) THEN okReads + 1 ELSE okReads
    /\ UNCHANGED <<args, data, cap, clock, stats, frontal, raising, ret, opens, releases, checks,
                   flow, firstNow, saveTimes, sigints>>

\* One of the first MaxReads reads, with any result.
Read ==
    /\ reads < MaxReads
    /\ \E r \in ReadResults : ReadReturns(r, TRUE)

\* A read of a source that is read without end: any result.
ReadOn == \E r \in ReadResults : ReadReturns(r, reads < MaxReads)

\* A read that returns a frame.
ReadUsable == ReadReturns(<<TRUE, "frame">>, reads < MaxReads)

\* (mutant) A failed read ends the loop.
SleepGivesUp ==
    /\ pc = "sleep"
    /\ pc' = "finally"
    /\ UNCHANGED <<args, data, cap, ok, frame, clock, stats, frontal, raising, ret, hist, sigints>>

\* Lines 191-192: time.sleep(0.2); continue.
Sleep ==
    /\ pc = "sleep"
    /\ pc' = "read"
    /\ UNCHANGED <<args, data, cap, ok, frame, clock, stats, frontal, raising, ret, hist, sigints>>

\* Lines 194-201 and 51-73: preprocess_for_faces: the brightened and equalized
\* colour frame, and the grayscale of it.
Preprocess ==
    /\ pc = "preprocess"
    /\ pixel_b' = ConvertScaleAbs(pixel, brighten_alpha, brighten_beta)
    /\ disp' = Enhanced(reads, clahe)
    /\ gray' = GrayOf(Enhanced(reads, clahe))
    /\ pc' = "detect"
    /\ UNCHANGED <<args, profile, detection, annotated, disk, cap, ok, frame, clock, stats,
                   frontal, raising, ret, hist, sigints>>

\* Lines 202-209 and 94-113: detect_faces: the frontal detector with the
\* configured parameters, then the profile detector, when there is one, with
\* its own, and the two results fused.
Detect ==
    /\ pc = "detect"
    /\ \E f \in DetectorResults("frontal"), p \in DetectorResults("profile") :
        /\ frontalOut' = f
        /\ profileOut' = IF profile # "None" THEN p ELSE <<>>
        /\ faces' = Fuse(f, IF profile # "None" THEN p ELSE <<>>)
    /\ detectedOn' = gray
    /\ frontalCalls' = frontalCalls + 1
    /\ frontalArgs' = <<scale_factor, min_neighbors, min_size>>
    /\ profileCalls' = IF profile # "None" THEN profileCalls + 1 ELSE profileCalls
    /\ profileArgs' = IF profile # "None"
                      THEN ProfileParams(scale_factor, min_neighbors, min_size)
                      ELSE profileArgs
    /\ pc' = "annotate"
    /\ UNCHANGED <<args, profile, images, disk, cap, ok, frame, clock, stats, frontal,
                   raising, ret, hist, sigints>>

\* (mutant) The boxes are drawn on the frame as read, not on disp.
AnnotateRawFrame ==
    /\ pc = "annotate"
    /\ annotated' = Drawn(RawFrame(reads), faces)
    /\ pc' = "count"
    /\ UNCHANGED <<args, profile, detection, pixel_b, gray, disp, disk, cap, ok, frame,
                   clock, stats, frontal, raising, ret, hist, sigints>>

\* Lines 210 and 115-118: annotate draws the boxes on disp itself and returns it.
Annotate ==
    /\ pc = "annotate"
    /\ annotated' = Drawn(disp, faces)
    /\ disp' = Drawn(disp, faces)
    /\ pc' = "count"
    /\ UNCHANGED <<args, profile, detection, pixel_b, gray, disk, cap, ok, frame, clock,
                   stats, frontal, raising, ret, hist, sigints>>

\* (mutant) The iteration ends after the count, without its persistence check.
CountSkipsCheck ==
    /\ pc = "count"
    /\ frames' = frames + 1
    /\ fps_counter' = fps_counter + 1
    /\ pc' = "maxcheck"
    /\ UNCHANGED <<args, data, cap, ok, frame, clock, now, last_save, saved, t_fps,
                   frontal, raising, ret, hist, sigints>>

\* (mutant) The frame is counted both before and after the inference time is taken.
CountTwice ==
    /\ pc = "count"
    /\ frames' = frames + 2
    /\ fps_counter' = fps_counter + 1
    /\ pc' = "telemetry"
    /\ UNCHANGED <<args, data, cap, ok, frame, clock, now, last_save, saved, t_fps,
                   frontal, raising, ret, hist, sigints>>

\* Lines 212-214: frames += 1; fps_counter += 1.
Count ==
    /\ pc = "count"
    /\ frames' = frames + 1
    /\ fps_counter' = fps_counter + 1
    /\ pc' = "telemetry"
    /\ UNCHANGED <<args, data, cap, ok, frame, clock, now, last_save, saved, t_fps,
                   frontal, raising, ret, hist, sigints>>

\* Lines 217-228: now = time.time(); the FPS window; the per-frame log line.
Telemetry ==
    /\ pc = "telemetry"
    /\ \E t \in clock..MaxClock :
        /\ clock' = t
        /\ now' = t
        /\ IF t - t_fps >= FpsWindow
           THEN t_fps' = t /\ fps_counter' = 0
           ELSE t_fps' = t_fps /\ fps_counter' = fps_counter
        /\ firstNow' = IF firstNow = <<>> THEN <<t>> ELSE firstNow
    /\ pc' = "save"
    /\ UNCHANGED <<args, data, cap, ok, frame, last_save, saved, frames, frontal, raising, ret,
                   opens, reads, okReads, releases, checks, flow, saveTimes, sigints>>

\* Lines 231-237: the save of the annotated frame when the interval has
\* passed, under a name made of the UTC time read at line 232.
Save ==
    /\ pc = "save"
    /\ checks' = checks + 1
    /\ IF SaveDue(now, last_save, save_interval)
       THEN /\ \E ts \in clock..MaxClock :
                /\ clock' = ts
                /\ files' = files \cup {FileName(ts)}
                /\ lastName' = FileName(ts)
            /\ written' = annotated
            /\ saved' = saved + 1
            /\ last_save' = now
            /\ saveTimes' = Append(saveTimes, now)
       ELSE UNCHANGED <<clock, disk, saved, last_save, saveTimes>>
    /\ pc' = "maxcheck"
    /\ UNCHANGED <<args, profile, detection, images, cap, ok, frame, now, frames, t_fps,
                   fps_counter, frontal, raising, ret, opens, reads, okReads, releases, flow,
                   firstNow, sigints>>

\* Lines 239-241: break once max_frames frames are counted, else the next read.
MaxCheck ==
    /\ pc = "maxcheck"
    /\ IF MaxFramesReached(frames, max_frames)
       THEN pc' = "finally" /\ loopExit' = "break"
       ELSE pc' = "read" /\ loopExit' = loopExit
    /\ UNCHANGED <<args, data, cap, ok, frame, clock, stats, frontal, raising, ret, opens, reads,
                   okReads, releases, checks, caughtAt, streamed, firstNow, saveTimes, sigints>>

\* ------------------------------------------------------------ shutdown
\* (mutant) The handler swallows the interrupt and the loop goes on.
ExceptResumes ==
    /\ pc = "except"
    /\ pc' = "read"
    /\ UNCHANGED <<args, data, cap, ok, frame, clock, stats, frontal, raising, ret, hist, sigints>>

\* Lines 243-244: except KeyboardInterrupt: the log line.
Except ==
    /\ pc = "except"
    /\ pc' = "finally"
    /\ UNCHANGED <<args, data, cap, ok, frame, clock, stats, frontal, raising, ret, hist, sigints>>

\* Lines 245-246: finally: cap.release(); a propagating exception leaves main().
Finally ==
    /\ pc = "finally"
    /\ cap' = "released"
    /\ releases' = releases + 1
    /\ pc' = IF raising THEN "killed" ELSE "return"
    /\ UNCHANGED <<args, data, ok, frame, clock, stats, frontal, raising, ret, opens, reads, okReads,
                   checks, flow, firstNow, saveTimes, sigints>>

\* Line 248: return 0.
Return ==
    /\ pc = "return"
    /\ ret' = <<ExitOk>>
    /\ pc' = "done"
    /\ UNCHANGED <<args, data, cap, ok, frame, clock, stats, frontal, raising, hist, sigints>>

\* ----------------------------------------------------------- interrupt
\* SIGINT: KeyboardInterrupt is raised at the statement about to run.  In the
\* try block it is caught by line 243.  In the except handler it propagates
\* through the finally clause.  In the finally clause, before cap.release() is
\* called, and anywhere outside the try statement, it leaves main() at once.
Interrupt ==
    /\ pc \notin Terminated
    /\ sigints < MaxInterrupts
    /\ sigints' = sigints + 1
    /\ IF pc \in TryBlock
       THEN /\ pc' = "except"
            /\ loopExit' = "interrupt"
            /\ caughtAt' = pc
            /\ raising' = raising
       ELSE /\ pc' = IF pc = "except" THEN "finally" ELSE "killed"
            /\ raising' = (raising \/ pc = "except")
            /\ UNCHANGED <<loopExit, caughtAt>>
    /\ UNCHANGED <<args, data, cap, ok, frame, clock, stats, frontal, ret, opens, reads, okReads,
                   releases, checks, streamed, firstNow, saveTimes>>

Next ==
    \/ Dispatch
    \/ HcOpen \/ HcRead \/ HcRelease \/ HcResult
    \/ LoadDetectors \/ OpenCapture \/ InitStats
    \/ Read \/ Sleep \/ Preprocess \/ Detect \/ Annotate \/ Count \/ Telemetry
    \/ Save \/ MaxCheck
    \/ Except \/ Finally \/ Return
    \/ Interrupt

Spec == Init /\ [][Next]_vars

\* The same program, started with the detection options drawn from their ranges.
SpecDetect == InitDetect /\ [][Next]_vars

\* One call of detect_faces on each of its inputs, after the preprocessing.
NextDetectCall == Preprocess \/ Detect
SpecDetectCall == InitDetectCall /\ [][NextDetectCall]_vars

\* One call of preprocess_for_faces on each of its inputs.
NextBrighten == Preprocess
SpecBrighten == InitBrighten /\ [][NextBrighten]_vars

\* The main pipeline with a positive --max-frames, reading for as long as it
\* runs, never interrupted.
InitLive ==
    /\ health_check = FALSE
    /\ max_frames \in 1..MaxFramesArg
    /\ save_interval \in -1..MaxInterval
    /\ DefaultDetection
    /\ DefaultPreprocess
    /\ NoFaces
    /\ InitRest

NextLive ==
    \/ Dispatch
    \/ LoadDetectors \/ OpenCapture \/ InitStats
    \/ ReadOn \/ Sleep \/ Preprocess \/ Detect \/ Annotate \/ Count \/ Telemetry
    \/ Save \/ MaxCheck
    \/ Finally \/ Return

\* The process keeps running, and the source keeps delivering: of the reads
\* attempted, infinitely many return a frame.
SpecLive ==
    InitLive /\ [][NextLive]_vars /\ WF_vars(NextLive) /\ SF_vars(ReadUsable)

\* ------------------------------------------------------ pipeline state
\* The state of the pipeline's state machine at each statement: CONNECTING up
\* to the entry of the try block, STREAMING inside the loop, DEGRADED in the
\* backoff of a failed read, SHUTTING_DOWN in the except and finally clauses.
PipelineState ==
    CASE pc = "start" -> "UNINITIALIZED"
      [] pc \in {"load", "open", "init", "hc_open", "hc_read", "hc_release", "hc_result"}
            -> "CONNECTING"
      [] pc = "sleep" -> "DEGRADED"
      [] pc \in TryBlock \ {"sleep"} -> "STREAMING"
      [] pc \in {"except", "finally", "return"} -> "SHUTTING_DOWN"
      [] pc \in Terminated -> "TERMINATED"

\* ================================================================ claims

\* C1: with max_frames = N > 0 the frame counter never exceeds N; no read is
\* attempted (and no frame is in progress before its count) once N frames are
\* counted; and when the loop is left by the break of line 241 exactly N frames
\* were read and counted and each of them, the N-th included, had its
\* persistence check.
C1_MaxFrames ==
    max_frames > 0 =>
        /\ frames <= max_frames
        /\ pc \in {"read", "sleep", "preprocess", "detect", "annotate", "count"}
              => frames < max_frames
        /\ loopExit = "break"
              => /\ frames = max_frames
                 /\ okReads = max_frames
                 /\ checks = max_frames
                 /\ PipelineState \in {"SHUTTING_DOWN", "TERMINATED"}

\* C1 witness: a run with N = 2 that had failed reads between its frames has
\* left the loop by the break and returned.
C1_Witness ==
    /\ max_frames = 2 /\ loopExit = "break" /\ pc = "done"
    /\ frames = 2 /\ checks = 2 /\ reads >= 4

\* C2: a failed read (not ok, or no frame) goes to the backoff and nowhere
\* else, and from the backoff the next statement is another read, unless a
\* SIGINT arrives; neither step changes the frame counter, the saved counter,
\* the last-save timestamp, the FPS counter or the number of persistence
\* checks, and the loop is not left.
C2_FailedReadAbsorbed ==
    [][ /\ (pc = "read" /\ reads' = reads + 1 /\ (~ok' \/ frame' = "None"))
            => /\ pc' = "sleep"
               /\ UNCHANGED <<stats, checks, okReads, loopExit, cap, ret>>
        /\ (pc = "sleep" /\ sigints' = sigints)
            => /\ pc' = "read"
               /\ ~ok \/ frame = "None"
               /\ UNCHANGED <<stats, checks, okReads, reads, loopExit, cap, ret>>
      ]_vars

\* C2 witness: five consecutive failed reads, and the loop is about to read again.
C2_Witness ==
    /\ reads = 5 /\ okReads = 0 /\ frames = 0 /\ saved = 0
    /\ pc = "read" /\ loopExit = "none" /\ ~ok

\* C3 (as claimed): in main-pipeline mode the handle, once opened, is never
\* released twice, and is released exactly once when the process has terminated.
C3_ReleasedExactlyOnce ==
    ~health_check =>
        /\ releases <= 1
        /\ (pc \in Terminated /\ cap # "None") => releases = 1

\* C4: health_check returns 0 iff the open succeeded and the read returned ok
\* with a frame; 1 iff the open failed; 2 iff the open succeeded and the read
\* was not ok or returned no frame.
C4_HealthStatus ==
    (health_check /\ pc = "done") =>
        /\ ret \in {<<0>>, <<1>>, <<2>>}
        /\ ret = <<0>> <=> (cap # "None" /\ ok /\ frame # "None")
        /\ ret = <<1>> <=> cap = "None"
        /\ ret = <<2>> <=> (cap # "None" /\ (~ok \/ frame = "None"))

\* C4 witness: the open succeeded and the read said ok but gave no frame: status 2.
C4_Witness ==
    /\ health_check /\ pc = "done" /\ ret = <<2>>
    /\ cap = "released" /\ ok /\ frame = "None"

\* C5 (as claimed): a finished health check made exactly one open, one read
\* and one release, whatever its outcome, and never entered STREAMING.
C5_OneOpenReadRelease ==
    (health_check /\ pc = "done") =>
        /\ opens = 1 /\ reads = 1 /\ releases = 1
        /\ ~streamed /\ frontal = "unset" /\ frames = 0 /\ saved = 0

\* C5 (amended): a health check makes one open; when the open succeeds it makes
\* one read and one release (outcomes 0 and 2), and when the open fails
\* (outcome 1) it makes no read and no release; it never enters STREAMING, loads
\* no detector, counts no frame and saves none.
C5_HealthCheckCalls ==
    health_check =>
        /\ opens <= 1 /\ reads <= 1 /\ releases <= 1
        /\ pc = "done" =>
              /\ opens = 1
              /\ IF ret = <<HealthOpenFailed>>
                 THEN reads = 0 /\ releases = 0 /\ cap = "None"
                 ELSE reads = 1 /\ releases = 1 /\ cap = "released"
        /\ ~streamed /\ PipelineState \notin {"STREAMING", "DEGRADED", "SHUTTING_DOWN"}
        /\ frontal = "unset"
        /\ frames = 0 /\ saved = 0 /\ checks = 0 /\ saveTimes = <<>>

\* C5 witness: a health check whose read failed has finished, after one open,
\* one read and one release.
C5_Witness ==
    /\ health_check /\ pc = "done" /\ ret = <<HealthReadFailed>>
    /\ opens = 1 /\ reads = 1 /\ releases = 1

\* C6: in main-pipeline mode a frontal detector that fails to load ends the
\* process with code 3 before any open; otherwise a source that fails to open
\* ends it with code 4; in both cases the loop is never entered and nothing is
\* read, counted or saved.  A run that entered the loop and left it by the
\* max-frames break (no SIGINT) or by its one caught SIGINT returns 0.
C6_ExitCodes ==
    ~health_check =>
        /\ frontal = "None" => (pc = "done" /\ ret = <<3>> /\ opens = 0)
        /\ (frontal = "loaded" /\ opens = 1 /\ cap = "None")
              => (pc = "done" /\ ret = <<4>>)
        /\ ret = <<3>> => frontal = "None"
        /\ ret = <<4>> => (frontal = "loaded" /\ opens = 1 /\ cap = "None")
        /\ ret \in {<<3>>, <<4>>}
              => (~streamed /\ reads = 0 /\ frames = 0 /\ saved = 0 /\ checks = 0)
        /\ ret \notin {<<1>>, <<2>>}
        /\ ( /\ pc \in Terminated /\ streamed
             /\ \/ loopExit = "break" /\ sigints = 0
                \/ loopExit = "interrupt" /\ sigints = 1 )
              => (pc = "done" /\ ret = <<0>>)

\* C6 witness: the detector loaded, the source did not open: code 4.
C6_Witness ==
    /\ ~health_check /\ pc = "done" /\ ret = <<4>>
    /\ frontal = "loaded" /\ cap = "None" /\ reads = 0

\* C7: every processed frame gets one persistence check and no save is made
\* outside it; the check saves iff now - last_save >= save_interval, and then
\* sets last_save to that frame's now, else leaves it; so for a positive
\* interval the now values of successive saves are at least the interval apart.
C7_PersistenceGate ==
    /\ [](/\ checks <= frames /\ frames <= checks + 1
          /\ saved <= checks
          /\ Len(saveTimes) = saved
          /\ saved > 0 => last_save = saveTimes[saved]
          /\ save_interval > 0 =>
                \A i \in 1..(Len(saveTimes) - 1) :
                    saveTimes[i + 1] - saveTimes[i] >= save_interval)
    /\ [][ /\ checks' = checks + 1 =>
                IF now - last_save >= save_interval
                THEN saved' = saved + 1 /\ last_save' = now
                ELSE saved' = saved /\ last_save' = last_save
           /\ checks' = checks => (saved' = saved /\ last_save' = last_save)
         ]_vars

\* C7 witness: two saves were made in a run with a positive interval, and a
\* frame in between was checked and not saved.
C7_Witness ==
    /\ save_interval > 0 /\ saved = 2 /\ checks >= 3
    /\ saveTimes[2] - saveTimes[1] > save_interval

C9_GracefulInterrupt ==
    [][ /\ (sigints' = sigints + 1 /\ PipelineState \in {"STREAMING", "DEGRADED"})
            => (PipelineState' = "SHUTTING_DOWN" /\ loopExit' = "interrupt")
        /\ loopExit = "interrupt"
            => /\ UNCHANGED <<reads, okReads, frames, saved, checks, last_save, saveTimes>>
               /\ PipelineState' \in {"SHUTTING_DOWN", "TERMINATED"}
        /\ (loopExit = "interrupt" /\ sigints' = 1 /\ pc' \in Terminated)
            => (pc' = "done" /\ ret' = <<ExitOk>> /\ releases' = 1)
      ]_vars

\* C9 witness: a run interrupted in the backoff of a failed read has returned 0.
C9_Witness ==
    /\ pc = "done" /\ ret = <<ExitOk>> /\ caughtAt = "sleep"
    /\ sigints = 1 /\ releases = 1 /\ reads >= 2

\* C10 (as claimed): the interrupt is caught only between iterations, and when
\* the pipeline is SHUTTING_DOWN every frame read has been counted and every
\* frame counted has had its persistence check.
C10_NoFrameLeftMidStage ==
    PipelineState = "SHUTTING_DOWN" =>
        /\ caughtAt \in {"none", "read"}
        /\ okReads = frames /\ frames = checks

\* C10 (amended): the interrupt is caught at whatever statement is running; at
\* most one frame, the one in progress, is ever read but not counted or counted
\* but not checked.  On shutdown by the max-frames break, or by an interrupt
\* caught at the read, in the backoff or at the max-frames test, no frame is
\* left incomplete; an interrupt caught from preprocessing to the count leaves
\* the frame read but not counted, and one caught at the telemetry or the save
\* leaves it counted without its persistence check.
C10_AtMostOneFrameInProgress ==
    /\ okReads - frames \in {0, 1}
    /\ frames - checks \in {0, 1}
    /\ okReads - checks \in {0, 1}
    /\ (streamed /\ PipelineState \in {"SHUTTING_DOWN", "TERMINATED"}) =>
          /\ loopExit \in {"break", "interrupt"}
          /\ loopExit = "break" => (caughtAt = "none" /\ okReads = frames /\ frames = checks)
          /\ caughtAt \in {"read", "sleep", "maxcheck"}
                => (okReads = frames /\ frames = checks)
          /\ caughtAt \in {"preprocess", "detect", "annotate", "count"}
                => (okReads = frames + 1 /\ frames = checks)
          /\ caughtAt \in {"telemetry", "save"}
                => (okReads = frames /\ frames = checks + 1)

\* C10 witness: the second frame of a run was interrupted during detection.
C10_Witness ==
    /\ PipelineState = "SHUTTING_DOWN" /\ caughtAt = "detect"
    /\ okReads = 2 /\ frames = 1 /\ checks = 1

\* C11: for every frame, with m boxes from the frontal detector and n from the
\* profile detector (none when it is not configured), detect_faces returns the
\* m frontal boxes in their order followed by the n profile boxes in theirs:
\* m + n boxes, none removed, merged or reordered.
C11_Fusion ==
    /\ Len(faces) = Len(frontalOut) + Len(profileOut)
    /\ \A i \in 1..Len(frontalOut) : faces[i] = frontalOut[i]
    /\ \A j \in 1..Len(profileOut) : faces[Len(frontalOut) + j] = profileOut[j]
    /\ profile = "loaded" => profileCalls = frontalCalls

\* C11 witness: on the second frame both detectors reported boxes.
C11_Witness ==
    /\ frontalCalls = 2 /\ profileCalls = 2
    /\ Len(frontalOut) = 2 /\ Len(profileOut) = 1
    /\ faces = <<<<"frontal", 1>>, <<"frontal", 2>>, <<"profile", 1>>>>

\* C12: with --use-profile given, the frontal cascade loaded and the profile
\* cascade not, the run does not end with code 3, the profile detector is never
\* called, and the result of every detection is the frontal detector's alone.
C12_ProfileMissing ==
    (use_profile /\ frontal = "loaded" /\ profile # "loaded") =>
        /\ profile = "None"
        /\ ret # <<DetectorLoadFailed>>
        /\ pc \notin {"start", "load"}
        /\ profileCalls = 0 /\ profileArgs = <<>> /\ profileOut = <<>>
        /\ faces = frontalOut

\* C12 witness: such a run has detected on two frames and returned 0.
C12_Witness ==
    /\ use_profile /\ frontal = "loaded" /\ profile = "None"
    /\ pc = "done" /\ ret = <<ExitOk>>
    /\ frontalCalls = 2 /\ profileCalls = 0 /\ Len(faces) = 2

\* C13 (as claimed): whenever the profile detector is called, the minNeighbors
\* it is given is at most the one given to the frontal detector, and the minimum
\* size is the same.
C13_ProfileRelaxed ==
    profileCalls > 0 =>
        /\ profileArgs[2] <= frontalArgs[2]
        /\ profileArgs[3] = frontalArgs[3]

\* C13 (amended): the frontal detector is given the configured parameters; the
\* profile detector is given the same minimum size and, as minNeighbors, one
\* less than the configured value when that is above 3, and 3 otherwise: at most
\* the frontal value only for configured values of 3 and more, and more than
\* the frontal value for 0, 1 and 2.
C13_ProfileNeighbors ==
    /\ frontalCalls > 0 => frontalArgs = <<scale_factor, min_neighbors, min_size>>
    /\ profileCalls > 0 =>
          /\ profileArgs[3] = frontalArgs[3]
          /\ min_neighbors > 3 => profileArgs[2] = frontalArgs[2] - 1
          /\ min_neighbors <= 3 => profileArgs[2] = 3
          /\ min_neighbors >= 3 => profileArgs[2] <= frontalArgs[2]
          /\ min_neighbors < 3 => profileArgs[2] > frontalArgs[2]

\* C13 witness: with --min-neighbors 0 the profile detector was given 3.
C13_Witness ==
    /\ profileCalls = 1 /\ min_neighbors = 0
    /\ frontalArgs[2] = 0 /\ profileArgs[2] = 3 /\ profileArgs[3] = min_size

\* ---------------------------------------------------------------- C14
\* clamp(alpha * v + beta, 0, 255) for alpha in tenths, rounded as the 8-bit
\* store rounds.
ClampedAffine(v, alpha10, beta) ==
    LET x10 == alpha10 * v + 10 * beta
    IN  IF x10 <= 0 THEN 0
        ELSE IF RoundHalfEven(x10, 10) > PixelMax THEN PixelMax
        ELSE RoundHalfEven(x10, 10)

\* C14: for every pixel value v in 0..255, every alpha > 0 and every beta the
\* brightening step outputs clamp(alpha * v + beta, 0, 255), a value in 0..255.
C14_BrightenClamps ==
    pc = "detect" =>
        /\ pixel_b = ClampedAffine(pixel, brighten_alpha, brighten_beta)
        /\ pixel_b \in 0..PixelMax

\* ---------------------------------------------------------------- C15
\* C15: the names of successively saved frames are strictly increasing in
\* lexical order, for every save interval; so no save overwrites a file of the
\* run, and the output directory holds as many files as the saved counter says.
C15_NamesStrictlyIncrease ==
    /\ [](Cardinality(files) = saved)
    /\ [][(saved' = saved + 1 /\ lastName # <<>>) => LexLess(lastName, lastName')]_vars

\* ---------------------------------------------------------------- C16
\* C16: with max_frames = 0 the loop never leaves STREAMING (or the DEGRADED
\* backoff of a failed read) on its own: whatever the reads return, the only
\* step out of it is an external interrupt, and that step leads to
\* SHUTTING_DOWN; the break of line 241 is never taken.
C16_UnboundedUntilInterrupt ==
    /\ [](max_frames = 0 => loopExit # "break")
    /\ [][(/\ max_frames = 0
           /\ PipelineState \in {"STREAMING", "DEGRADED"}
           /\ PipelineState' \notin {"STREAMING", "DEGRADED"})
            => (/\ sigints' = sigints + 1
                /\ PipelineState' = "SHUTTING_DOWN"
                /\ loopExit' = "interrupt")]_vars

\* C16 witness: with max_frames = 0 and no interrupt, three frames were
\* processed and a read failed, and the loop is at its next read.
C16_Witness ==
    /\ max_frames = 0 /\ sigints = 0
    /\ frames = 3 /\ okReads < reads
    /\ pc = "read" /\ PipelineState = "STREAMING"

\* ---------------------------------------------------------------- C17
\* The statement that follows each stage of a frame when nothing interrupts.
StageAfter(stage) ==
    CASE stage = "preprocess" -> {"detect"}
      [] stage = "detect"     -> {"annotate"}
      [] stage = "annotate"   -> {"count"}
      [] stage = "count"      -> {"telemetry"}
      [] stage = "telemetry"  -> {"save"}
      [] stage = "save"       -> {"maxcheck"}
      [] stage = "maxcheck"   -> {"read", "finally"}

\* C17: the stages of a frame run in the order read, preprocess, detect,
\* annotate, count and telemetry, persistence check, max-frames check, and a
\* read comes only after the max-frames check of the frame before it (or a
\* failed read's backoff); detection is given the grayscale of the enhanced
\* frame of the current read, annotation draws on that enhanced colour frame,
\* and the image written is that annotated enhanced frame: never the raw frame,
\* never the frame of an earlier read.
C17_StagesInOrder ==
    /\ [](/\ pc \in {"annotate", "count", "telemetry", "save", "maxcheck"}
              => detectedOn = GrayOf(Enhanced(reads, clahe))
          /\ pc \in {"count", "telemetry", "save", "maxcheck"}
              => annotated = Drawn(Enhanced(reads, clahe), faces)
          /\ pc \in FrameStages => Usable(ok, frame))
    /\ [][/\ (pc \in FrameStages /\ sigints' = sigints) => pc' \in StageAfter(pc)
          /\ (pc = "read" /\ sigints' = sigints) => pc' \in {"preprocess", "sleep"}
          /\ (pc' = "read" /\ pc # "read") => pc \in {"init", "sleep", "maxcheck"}
          /\ reads' # reads => (pc \in {"read", "hc_read"} /\ reads' = reads + 1)
          /\ saved' # saved =>
                /\ pc = "save"
                /\ written' = Drawn(Enhanced(reads, clahe), faces)
                /\ written'.src = reads /\ written'.kind = "enhanced"]_vars

\* C17 witness: the first frame was not saved, the second was, with the two
\* boxes found in it drawn on its enhanced image.
C17_Witness ==
    /\ pc = "maxcheck" /\ reads = 2 /\ frames = 2 /\ saved = 1
    /\ written = Drawn(Enhanced(2, clahe), faces)
    /\ Len(faces) = 2

\* ---------------------------------------------------------------- C18
\* C18: with max_frames = N > 0 and no interrupt, a pipeline whose reads
\* succeed infinitely often eventually terminates, having counted N frames,
\* with the handle released once and exit code 0.  A failed read has no
\* budget: it changes no counter and is always followed by the backoff and
\* another read, so a source that fails forever is retried forever.
C18_TerminatesUnderFairReads ==
    /\ streamed ~> (pc = "done" /\ ret = <<ExitOk>> /\ releases = 1 /\ frames = max_frames)
    /\ [](streamed /\ pc \in Terminated =>
             (pc = "done" /\ ret = <<ExitOk>> /\ cap = "released" /\ loopExit = "break"))
    /\ [][/\ (pc = "read" /\ pc' = "sleep") => UNCHANGED <<stats, disk, loopExit, ret, cap>>
          /\ pc = "sleep" => pc' = "read"]_vars

\* C18 witness: a run of two frames terminated with code 0 after a failed
\* read.
C18_Witness ==
    /\ pc = "done" /\ ret = <<ExitOk>> /\ releases = 1
    /\ max_frames = 2 /\ frames = 2
    /\ reads < MaxReads /\ okReads < reads

\* ---------------------------------------------------------------- C19
\* A frame was read and is, or was when the interrupt came, before its count.
BeforeCount ==
    \/ pc \in {"preprocess", "detect", "annotate", "count"}
    \/ caughtAt \in {"preprocess", "detect", "annotate", "count"}

\* C19: in every state of the main loop 0 <= saved <= frames and
\* 0 <= fps_counter <= frames; frames is the number of successful reads whose
\* processing reached the count; frames and saved never decrease, frames grows
\* by one and only at the count, saved by one and only at the persistence
\* check, so each grows by at most one per iteration; and last_save never
\* decreases.
C19_CountersConsistent ==
    /\ [](streamed =>
            /\ 0 <= saved /\ saved <= checks /\ checks <= frames
            /\ 0 <= fps_counter /\ fps_counter <= frames
            /\ frames = okReads - (IF BeforeCount THEN 1 ELSE 0)
            /\ saved = Len(saveTimes)
            /\ last_save <= now)
    /\ [][/\ frames' \in {frames, frames + 1}
          /\ saved' \in {saved, saved + 1}
          /\ frames' # frames => (pc = "count" /\ okReads' = okReads)
          /\ saved' # saved => (pc = "save" /\ checks' = checks + 1 /\ frames' = frames)
          /\ last_save' >= last_save]_vars

\* C19 witness: three frames counted, two of them saved, the FPS counter
\* restarted since, the third frame's check done.
C19_Witness ==
    /\ pc = "maxcheck" /\ frames = 3 /\ saved = 2 /\ checks = 3
    /\ fps_counter = 1 /\ last_save > 0 /\ okReads < reads

\* ---------------------------------------------------------------- C20
\* The clock is at least the save interval when the first frame is processed:
\* it was when that frame's time was taken, or the interval is not positive.
ClockPastInterval ==
    \/ save_interval <= 0
    \/ (firstNow # <<>> /\ firstNow[1] >= save_interval)

\* C20 (as claimed): a run that has processed at least one frame, with the
\* clock at least the save interval, ends with saved >= 1.
C20_ProcessedRunHasSaved ==
    (streamed /\ pc \in Terminated /\ frames >= 1 /\ ClockPastInterval) => saved >= 1

\* C20 (amended): the first frame that reaches its persistence check is saved
\* whenever its clock value is at least the save interval, however many failed
\* reads came before it, so saved >= 1 from then on.  A run that counted a frame
\* and ends with saved = 0 under such a clock is one interrupted at the
\* telemetry or the persistence check of its first frame.
C20_FirstCheckedFrameSaved ==
    /\ (checks >= 1 /\ firstNow[1] >= save_interval) =>
          (saved >= 1 /\ saveTimes[1] = firstNow[1])
    /\ (streamed /\ pc \in Terminated /\ frames >= 1 /\ ClockPastInterval /\ saved = 0) =>
          (frames = 1 /\ checks = 0 /\ caughtAt \in {"telemetry", "save"})

\* C20 witness: after two failed reads the first frame, at clock 2 with save
\* interval 2, went through its persistence check and was saved.
C20_Witness ==
    /\ save_interval = 2 /\ firstNow = <<2>>
    /\ reads = 3 /\ okReads = 1 /\ frames = 1 /\ checks = 1
    /\ saved = 1 /\ saveTimes = <<2>>

====
